---- MODULE Spec2Model ----
(***************************************************************************)
(* Now-playing coordinator (NowPlayingProvider) and the YouTube player     *)
(* bridge (lib/youtubeManager.ts) of vibes_fm.                             *)
(*                                                                         *)
(* The page runs on one event loop.  A handler (a click, a media-session   *)
(* action, a browser event) runs to its first await as one step.  The      *)
(* continuation of an await is a microtask: it is queued on mq when the    *)
(* awaited promise settles and runs before any further handler starts.     *)
(***************************************************************************)
EXTENDS Integers, Sequences, FiniteSets, TLC

\* ------------------------------------------------------------------ bounds
MaxCalls == 2          \* requestPlay* / ensureYouTubePlayer invocations followed in one run
MaxQueue == 3          \* longest queue a run of SpecQueue starts from
Duration == 1          \* length of every media resource, in seconds
MaxSubs == 2           \* subscribe() calls followed in one run
MaxEvents == 2         \* player events one subscriber's counter follows

\* ------------------------------------------------------------ value spaces
AudioIds == {"a1", "a2"}   \* <audio> elements; the meta id is the element's src
VideoIds == {"v1", "v2"}   \* YouTube video ids

Null == [type |-> "none", id |-> "none"]
AudioItem(e) == [type |-> "audio", id |-> e]
YouTubeItem(v) == [type |-> "youtube", id |-> v]
NowPlayingKind == {AudioItem(e) : e \in AudioIds} \cup {YouTubeItem(v) : v \in VideoIds}

NoStart == -1                              \* meta.startSeconds is undefined
StartSeconds == {NoStart, 1}               \* meta.startSeconds of requestPlayYouTube
SeekTargets == {-1, 1, Duration + 1}       \* seconds passed to seekTo
SeekDeltas == {-1, 1, Duration + 1}        \* delta passed to seekBy

VARIABLES
  state,            \* NowPlayingState: current, playing, queue, index
  audioRef,         \* audioRef.current: an element of AudioIds or "none"
  position,         \* the provider's position state
  aud,              \* native state of each <audio> element
  elTime,           \* currentTime of each <audio> element
  elDur,            \* duration of each <audio> element, 0 while it is NaN
  tupd,             \* <audio> elements with a timeupdate event queued
  scriptsInjected,  \* number of iframe_api <script> tags appended
  apiReadyPromise,  \* "null" | "pending" | "resolved"
  scriptFailed,     \* the injected script failed to load
  players,          \* players map: video id -> instance number, 0 = no entry
  ytInst,           \* video id -> sequence of constructed YT.Player instances
  listeners,        \* listeners map: video id -> set of subscribed callbacks
  subs,             \* the callbacks passed to subscribe(), in call order
  widgets,          \* the YouTubeAudioPlayer widgets, in mount order
  playbackState,    \* navigator.mediaSession.playbackState
  pollTimer,        \* video id the provider's poll interval runs for, or "none"
  deact,            \* pending requests that were in flight when pauseAll() / stop() was called
  calls,            \* requestPlay* / ensureYouTubePlayer invocations, in call order
  mq,               \* microtask queue: call ids whose continuation is runnable
  lastOp            \* the operation the latest step invoked, and its argument

vars == <<state, audioRef, position, aud, elTime, elDur, tupd, scriptsInjected,
          apiReadyPromise, scriptFailed, players, ytInst, listeners, subs, widgets,
          playbackState, pollTimer, deact, calls, mq, lastOp>>

\* everything but the records of the operations invoked (lastOp, deact)
progVars == <<state, audioRef, position, aud, elTime, elDur, tupd, scriptsInjected,
              apiReadyPromise, scriptFailed, players, ytInst, listeners, subs, widgets,
              playbackState, pollTimer, calls, mq>>

coordVars == <<state, audioRef>>
bridgeVars == <<scriptsInjected, apiReadyPromise, scriptFailed, players, ytInst>>
timeVars == <<position, elTime, elDur, tupd>>
subVars == <<listeners, subs, widgets>>

\* an operation with the media id it was given; arg is the number passed to a seek
Op(name, id) == [op |-> name, id |-> id, arg |-> 0]
SeekOp(name, id, arg) == [op |-> name, id |-> id, arg |-> arg]

Min(a, b) == IF a < b THEN a ELSE b
Max(a, b) == IF a > b THEN a ELSE b

\* ------------------------------------------------------------ native media
\* HTMLMediaElement: "starting" = play() called, promise pending;
\* "error" = the load failed after play() (paused stays false, nothing sounds);
\* "ended" = playback reached the end (the element pauses itself).
AudStates == {"paused", "starting", "playing", "error", "ended"}
ElPaused(a, e) == a[e] \in {"paused", "ended"}

\* YT.Player instance: its methods exist once it has fired onReady; t is what
\* getCurrentTime() returns
YtStates == {"unstarted", "playing", "paused", "ended"}
NewInstance == [ready |-> FALSE, st |-> "unstarted", t |-> 0]

\* getDuration() is 0 until the video has started
YtDuration(i) == IF i.ready /\ i.st # "unstarted" THEN Duration ELSE 0

\* (mutant: pause() without effect)
ElPauseSkipped(a, e) == a

\* el.pause(): a playing or loading element becomes paused
ElPause(a, e) == [a EXCEPT ![e] = IF @ = "ended" THEN "ended" ELSE "paused"]

\* the elements a pause() call took out of playback: each fires timeupdate
NewlyPaused(a, a2) == {e \in AudioIds : ~ElPaused(a, e) /\ ElPaused(a2, e)}

\* a seek of the media resource: the new playback position is brought into
\* [0, duration]; while no metadata is loaded the value is kept as it is
Seek(x, d) == IF d = 0 THEN x ELSE Max(0, Min(d, x))

\* (mutant: seekBy without its Math.max / Math.min)
ClampSkipped(x, d) == x

\* Math.max(0, Math.min(duration, target)) of seekBy
Clamp(x, d) == Max(0, Min(d, x))

\* pending play() promises of e are rejected (AbortError) by pause() / load()
AbortPlay(cs, e) ==
  [i \in 1..Len(cs) |->
     IF cs[i].pc = "awaitPlay" /\ cs[i].item = AudioItem(e)
     THEN [cs[i] EXCEPT !.pc = "playRejected"] ELSE cs[i]]

\* ids of the calls whose awaited promise settled between cs and cs2, in call order
Settled(cs, cs2) ==
  SelectSeq([i \in 1..Len(cs) |-> i], LAMBDA i : cs[i].pc # cs2[i].pc)

\* youtubeManager pause(videoId): forwards to the recorded player when it has
\* a pauseVideo method (instances get their methods at onReady)
pause(pl, inst, v) ==
  IF pl[v] # 0 /\ inst[v][pl[v]].ready /\ inst[v][pl[v]].st = "playing"
  THEN [inst EXCEPT ![v][pl[v]].st = "paused"]
  ELSE inst

\* youtubeManager play(videoId); playing an ended video restarts it
play(pl, inst, v) ==
  IF pl[v] # 0 /\ inst[v][pl[v]].ready
  THEN [inst EXCEPT ![v][pl[v]].st = "playing",
                    ![v][pl[v]].t = IF inst[v][pl[v]].st = "ended" THEN 0 ELSE @]
  ELSE inst

\* (mutant: getTimes reading a player it does not have)
getTimesUnguarded(pl, inst, v) ==
  IF pl[v] # 0 /\ inst[v][pl[v]].ready
  THEN [current |-> inst[v][pl[v]].t, duration |-> YtDuration(inst[v][pl[v]])]
  ELSE [current |-> -1, duration |-> -1]

\* youtubeManager getTimes(videoId)
getTimes(pl, inst, v) ==
  IF pl[v] # 0 /\ inst[v][pl[v]].ready
  THEN [current |-> inst[v][pl[v]].t, duration |-> YtDuration(inst[v][pl[v]])]
  ELSE [current |-> 0, duration |-> 0]

\* youtubeManager seekTo(videoId, seconds)
ytSeekTo(pl, inst, v, seconds) ==
  IF pl[v] # 0 /\ inst[v][pl[v]].ready
  THEN [inst EXCEPT ![v][pl[v]].t = Seek(seconds, YtDuration(inst[v][pl[v]]))]
  ELSE inst

\* --------------------------------------------------------------- pauseAll
\* (mutant: pauseAll without its audio branch)
pauseAllAudSkipped(cur, a) == a

\* pauseAll() reads state.current; its effect on the <audio> elements, ...
pauseAllAud(cur, a) ==
  IF cur.type = "audio" THEN ElPause(a, cur.id) ELSE a

\* ... on the pending play() promises, ...
pauseAllCalls(cur, cs) ==
  IF cur.type = "audio" THEN AbortPlay(cs, cur.id) ELSE cs

\* (mutant: pauseAll without its youtube branch)
pauseAllYtSkipped(cur, pl, inst) == inst

\* ... on the YouTube players, ...
pauseAllYt(cur, pl, inst) ==
  IF cur.type = "youtube" THEN pause(pl, inst, cur.id) ELSE inst

\* ... and on the coordinator state (no update when current is null)
pauseAllState(s) ==
  IF s.current = Null THEN s ELSE [s EXCEPT !.playing = FALSE]

\* (mutant: the settling setState appending the item to the queue)
PlayedStateAppend(item, ok) ==
  [current |-> item, playing |-> ok, queue |-> Append(state.queue, item),
   index |-> Len(state.queue)]

\* (mutant: the settling setState without its current field)
PlayedStateNoCurrent(item, ok) ==
  [current |-> Null, playing |-> ok, queue |-> <<item>>, index |-> 0]

\* the state object requestPlayAudio / requestPlayYouTube assign on settling
PlayedState(item, ok) ==
  [current |-> item, playing |-> ok, queue |-> <<item>>, index |-> 0]

\* one requestPlay* invocation: the requested item, where its async function
\* stands (pc), state.current when it was called (prev), the YT.Player it
\* awaits (inst), how it settled (res), who called it (via: a widget's
\* "play", "next" / "prev", "ensure" for a direct ensureYouTubePlayer call,
\* "mount" for the one of a widget's mount effect) and meta.startSeconds (start)
NewCall(item, pc, cur, via) ==
  [item |-> item, pc |-> pc, prev |-> cur, inst |-> 0, res |-> "pending",
   via |-> via, start |-> NoStart]

\* (mutant: the playback-state effect writing 'paused' whatever playing is)
playbackStateStuck(s) == "paused"

\* ---------------------------------------------------------------- effects
\* the effect on [state.playing]: mediaSession.playbackState = playing ? 'playing' : 'paused'
playbackStateOf(s) == IF s.playing THEN "playing" ELSE "paused"

\* the effect on [current.type, current.id]: its cleanup clears the interval,
\* and a new interval is set when current is a YouTube item
pollTimerOf(s) == IF s.current.type = "youtube" THEN s.current.id ELSE "none"

\* React renders after the state updates of a step and runs the effects whose
\* dependencies changed
RunEffects ==
  /\ playbackState' = IF state'.playing # state.playing
                      THEN playbackStateOf(state') ELSE playbackState
  /\ pollTimer' = IF state'.current # state.current
                  THEN pollTimerOf(state') ELSE pollTimer

\* the requestPlayYouTube calls awaiting ensureYouTubePlayer
AwaitingReady == {c \in DOMAIN calls : calls[c].via \in {"play", "next", "prev"}
                                       /\ calls[c].item.type = "youtube"
                                       /\ calls[c].res = "pending"}

\* record of the requests a call of pauseAll() / stop() found in flight, kept
\* until the request settles
RecordDeactivated ==
  deact' = {c \in (IF lastOp'.op \in {"pauseAll", "stop"}
                    THEN deact \cup AwaitingReady ELSE deact) :
              calls'[c].res = "pending"}

\* ------------------------------------------------------------------- Init
Init ==
  /\ state = [current |-> Null, playing |-> FALSE, queue |-> <<>>, index |-> -1]
  /\ audioRef = "none"
  /\ position = 0
  /\ aud = [e \in AudioIds |-> "paused"]
  /\ elTime = [e \in AudioIds |-> 0]
  /\ elDur = [e \in AudioIds |-> 0]
  /\ tupd = {}
  /\ scriptsInjected = 0
  /\ apiReadyPromise = "null"
  /\ scriptFailed = FALSE
  /\ players = [v \in VideoIds |-> 0]
  /\ ytInst = [v \in VideoIds |-> <<>>]
  /\ listeners = [v \in VideoIds |-> {}]
  /\ subs = <<>>
  /\ widgets = <<>>
  /\ playbackState = playbackStateOf(state)
  /\ pollTimer = pollTimerOf(state)
  /\ deact = {}
  /\ calls = <<>>
  /\ mq = <<>>
  /\ lastOp = Op("none", "none")

\* ------------------------------------------------------- requestPlayAudio
\* the synchronous part: pauseAll(), audioRef.current = el, el.load(), el.play()
\* (load() drops the metadata and rewinds the element)
requestPlayAudioStart(s, e, via) ==
  LET cur == s.current
      cs1 == AbortPlay(pauseAllCalls(cur, calls), e)
  IN /\ aud' = [pauseAllAud(cur, aud) EXCEPT ![e] = "starting"]
     /\ ytInst' = pauseAllYt(cur, players, ytInst)
     /\ audioRef' = e
     /\ elTime' = [elTime EXCEPT ![e] = 0]
     /\ elDur' = [elDur EXCEPT ![e] = 0]
     /\ tupd' = (tupd \cup NewlyPaused(aud, pauseAllAud(cur, aud)))
                  \cup (IF elTime[e] # 0 THEN {e} ELSE {})
     /\ calls' = Append(cs1, NewCall(AudioItem(e), "awaitPlay", cur, via))
     /\ mq' = mq \o Settled(calls, cs1)
     /\ UNCHANGED <<position, scriptsInjected, apiReadyPromise, scriptFailed, players,
                    subVars>>

requestPlayAudio(e) ==
  /\ mq = <<>>
  /\ Len(calls) < MaxCalls
  /\ requestPlayAudioStart(state, e, "play")
  /\ state' = pauseAllState(state)
  /\ lastOp' = Op("requestPlayAudio", e)
  /\ RunEffects
  /\ RecordDeactivated

\* the browser has the metadata and starts playback: the pending play()
\* promises of e resolve
AudioPlaying(e) ==
  /\ mq = <<>>
  /\ aud[e] = "starting"
  /\ aud' = [aud EXCEPT ![e] = "playing"]
  /\ elDur' = [elDur EXCEPT ![e] = Duration]
  /\ elTime' = [elTime EXCEPT ![e] = Seek(@, Duration)]
  /\ LET cs1 == [i \in 1..Len(calls) |->
                   IF calls[i].pc = "awaitPlay" /\ calls[i].item = AudioItem(e)
                   THEN [calls[i] EXCEPT !.pc = "playResolved"] ELSE calls[i]]
     IN /\ calls' = cs1
        /\ mq' = mq \o Settled(calls, cs1)
  /\ lastOp' = Op("none", "none")
  /\ UNCHANGED <<coordVars, bridgeVars, position, tupd, subVars>>
  /\ RunEffects
  /\ RecordDeactivated

\* the resource fails to load: the pending play() promises of e reject
AudioError(e) ==
  /\ mq = <<>>
  /\ aud[e] = "starting"
  /\ aud' = [aud EXCEPT ![e] = "error"]
  /\ calls' = AbortPlay(calls, e)
  /\ mq' = mq \o Settled(calls, calls')
  /\ lastOp' = Op("none", "none")
  /\ UNCHANGED <<coordVars, bridgeVars, timeVars, subVars>>
  /\ RunEffects
  /\ RecordDeactivated

\* playback advances by a second and the element fires timeupdate:
\* ontimeupdate does setPosition(el.currentTime)
AudioTimeUpdate(e) ==
  /\ mq = <<>>
  /\ aud[e] = "playing" /\ elTime[e] < elDur[e]
  /\ elTime' = [elTime EXCEPT ![e] = @ + 1]
  /\ position' = elTime'[e]
  /\ tupd' = tupd \ {e}
  /\ lastOp' = Op("none", "none")
  /\ UNCHANGED <<coordVars, bridgeVars, aud, elDur, subVars, calls, mq>>
  /\ RunEffects
  /\ RecordDeactivated

\* the timeupdate event queued by a seek, a pause() or a load()
AudioSeeked(e) ==
  /\ mq = <<>>
  /\ e \in tupd
  /\ position' = elTime[e]
  /\ tupd' = tupd \ {e}
  /\ lastOp' = Op("none", "none")
  /\ UNCHANGED <<coordVars, bridgeVars, aud, elTime, elDur, subVars, calls, mq>>
  /\ RunEffects
  /\ RecordDeactivated

\* playback reaches the end of the track
AudioEnded(e) ==
  /\ mq = <<>>
  /\ aud[e] = "playing" /\ elTime[e] = elDur[e]
  /\ aud' = [aud EXCEPT ![e] = "ended"]
  /\ lastOp' = Op("none", "none")
  /\ UNCHANGED <<coordVars, bridgeVars, timeVars, subVars, calls, mq>>
  /\ RunEffects
  /\ RecordDeactivated

\* continuation after `await p`: the success setState
requestPlayAudioResolved(c) ==
  /\ mq # <<>> /\ Head(mq) = c
  /\ calls[c].pc = "playResolved"
  /\ state' = PlayedState(calls[c].item, TRUE)
  /\ calls' = [calls EXCEPT ![c].pc = "done", ![c].res = "ok"]
  /\ mq' = Tail(mq)
  /\ lastOp' = Op("none", "none")
  /\ UNCHANGED <<audioRef, aud, bridgeVars, timeVars, subVars>>
  /\ RunEffects
  /\ RecordDeactivated

\* the catch branch
requestPlayAudioRejected(c) ==
  /\ mq # <<>> /\ Head(mq) = c
  /\ calls[c].pc = "playRejected"
  /\ state' = PlayedState(calls[c].item, FALSE)
  /\ calls' = [calls EXCEPT ![c].pc = "done", ![c].res = "failed"]
  /\ mq' = Tail(mq)
  /\ lastOp' = Op("none", "none")
  /\ UNCHANGED <<audioRef, aud, bridgeVars, timeVars, subVars>>
  /\ RunEffects
  /\ RecordDeactivated

\* ------------------------------------------------------ youtubeManager.ts
\* (mutant: loadApi without its apiReadyPromise and getElementById guards)
loadApiUnguarded ==
  /\ apiReadyPromise' = IF apiReadyPromise = "null" THEN "pending" ELSE apiReadyPromise
  /\ scriptsInjected' = scriptsInjected + 1

\* loadApi(): the first call creates apiReadyPromise and appends the script
\* tag unless one with id yt-iframe-api is in the document
loadApi ==
  IF apiReadyPromise = "null"
  THEN /\ apiReadyPromise' = "pending"
       /\ scriptsInjected' = IF scriptsInjected = 0 THEN 1 ELSE scriptsInjected
  ELSE UNCHANGED <<apiReadyPromise, scriptsInjected>>

\* ensureYouTubePlayer(videoId) up to its first await, for the call at index c
\* of cs: a recorded player is returned at once, otherwise the call awaits
\* loadApi()
ensureYouTubePlayer(cs, c, v) ==
  IF players[v] # 0
  THEN /\ calls' = [cs EXCEPT ![c].pc = "ensured", ![c].inst = players[v]]
       /\ mq' = Append(mq, c)
       /\ UNCHANGED <<apiReadyPromise, scriptsInjected>>
  ELSE /\ loadApi
       /\ IF apiReadyPromise = "resolved"
          THEN /\ calls' = [cs EXCEPT ![c].pc = "apiResolved"]
               /\ mq' = Append(mq, c)
          ELSE /\ calls' = [cs EXCEPT ![c].pc = "awaitApi"]
               /\ mq' = mq

\* the iframe_api script has loaded and calls window.onYouTubeIframeAPIReady
ApiReady ==
  /\ mq = <<>>
  /\ apiReadyPromise = "pending" /\ ~scriptFailed
  /\ apiReadyPromise' = "resolved"
  /\ calls' = [i \in 1..Len(calls) |->
                 IF calls[i].pc = "awaitApi"
                 THEN [calls[i] EXCEPT !.pc = "apiResolved"] ELSE calls[i]]
  /\ mq' = mq \o Settled(calls, calls')
  /\ lastOp' = Op("none", "none")
  /\ UNCHANGED <<coordVars, aud, scriptsInjected, scriptFailed, players, ytInst,
                 timeVars, subVars>>
  /\ RunEffects
  /\ RecordDeactivated

\* the script request fails: onYouTubeIframeAPIReady is never called
ScriptError ==
  /\ mq = <<>>
  /\ apiReadyPromise = "pending" /\ ~scriptFailed
  /\ scriptFailed' = TRUE
  /\ lastOp' = Op("none", "none")
  /\ UNCHANGED <<coordVars, aud, scriptsInjected, apiReadyPromise, players, ytInst,
                 timeVars, subVars, calls, mq>>
  /\ RunEffects
  /\ RecordDeactivated

\* ensureYouTubePlayer after `await loadApi()`: new YT.Player(...), then
\* players.set(videoId, player) and `await readyPromise`
ensureYouTubePlayerConstruct(c) ==
  /\ mq # <<>> /\ Head(mq) = c
  /\ calls[c].pc = "apiResolved"
  /\ LET v == calls[c].item.id
         n == Len(ytInst[v]) + 1
     IN /\ ytInst' = [ytInst EXCEPT ![v] = Append(@, NewInstance)]
        /\ players' = [players EXCEPT ![v] = n]
        /\ calls' = [calls EXCEPT ![c].pc = "awaitReady", ![c].inst = n]
  /\ mq' = Tail(mq)
  /\ lastOp' = Op("none", "none")
  /\ UNCHANGED <<coordVars, aud, scriptsInjected, apiReadyPromise, scriptFailed,
                 timeVars, subVars>>
  /\ RunEffects
  /\ RecordDeactivated

\* the YT.Player constructor throws: ensureYouTubePlayer rejects, and
\* requestPlayYouTube, which has no try/catch, rejects to its caller
ensureYouTubePlayerThrows(c) ==
  /\ mq # <<>> /\ Head(mq) = c
  /\ calls[c].pc = "apiResolved"
  /\ calls' = [calls EXCEPT ![c].pc = "rejected", ![c].res = "threw"]
  /\ mq' = Tail(mq)
  /\ lastOp' = Op("none", "none")
  /\ UNCHANGED <<coordVars, aud, bridgeVars, timeVars, subVars>>
  /\ RunEffects
  /\ RecordDeactivated

\* (mutant: an event of v sent to the listeners of every video)
NotifyAll(ls, ss, v) ==
  [i \in 1..Len(ss) |->
     IF \E w \in VideoIds : i \in ls[w] THEN [ss[i] EXCEPT !.got = @ + 1] ELSE ss[i]]

\* listeners.get(videoId)?.forEach(fn => fn(evt)): every callback in the
\* listener set of v is called once
Notify(ls, ss, v) ==
  [i \in 1..Len(ss) |-> IF i \in ls[v] THEN [ss[i] EXCEPT !.got = @ + 1] ELSE ss[i]]

\* the counters of the callbacks an event of v reaches stay within MaxEvents
CanNotify(v) == \A i \in listeners[v] : subs[i].got < MaxEvents

\* instance n of video v fires onReady: the listeners of v are notified, then
\* resolveReady() of the call that built it
PlayerReady(v, n) ==
  /\ mq = <<>>
  /\ n \in 1..Len(ytInst[v])
  /\ ~ytInst[v][n].ready
  /\ CanNotify(v)
  /\ ytInst' = [ytInst EXCEPT ![v][n].ready = TRUE]
  /\ subs' = Notify(listeners, subs, v)
  /\ calls' = [i \in 1..Len(calls) |->
                 IF /\ calls[i].pc = "awaitReady"
                    /\ calls[i].item = YouTubeItem(v)
                    /\ calls[i].inst = n
                 THEN [calls[i] EXCEPT !.pc = "ensured"] ELSE calls[i]]
  /\ mq' = mq \o Settled(calls, calls')
  /\ lastOp' = Op("onReady", v)
  /\ UNCHANGED <<coordVars, aud, scriptsInjected, apiReadyPromise, scriptFailed, players,
                 timeVars, listeners, widgets>>
  /\ RunEffects
  /\ RecordDeactivated

\* the video of instance n of v plays on by a second
PlayerTimeAdvance(v, n) ==
  /\ mq = <<>>
  /\ n \in 1..Len(ytInst[v])
  /\ ytInst[v][n].st = "playing" /\ ytInst[v][n].t < Duration
  /\ ytInst' = [ytInst EXCEPT ![v][n].t = @ + 1]
  /\ lastOp' = Op("none", "none")
  /\ UNCHANGED <<coordVars, aud, scriptsInjected, apiReadyPromise, scriptFailed, players,
                 timeVars, subVars, calls, mq>>
  /\ RunEffects
  /\ RecordDeactivated

\* instance n of video v plays to its end: onStateChange with data 0 (the
\* state events that follow playVideo / pauseVideo take the same path)
PlayerEnded(v, n) ==
  /\ mq = <<>>
  /\ n \in 1..Len(ytInst[v])
  /\ ytInst[v][n].st = "playing" /\ ytInst[v][n].t = Duration
  /\ CanNotify(v)
  /\ ytInst' = [ytInst EXCEPT ![v][n].st = "ended"]
  /\ subs' = Notify(listeners, subs, v)
  /\ lastOp' = Op("onStateChange", v)
  /\ UNCHANGED <<coordVars, aud, scriptsInjected, apiReadyPromise, scriptFailed, players,
                 timeVars, listeners, widgets, calls, mq>>
  /\ RunEffects
  /\ RecordDeactivated

\* ----------------------------------------------------- requestPlayYouTube
\* the synchronous part: pauseAll(), then ensureYouTubePlayer(videoId)
requestPlayYouTubeStart(s, v, via, start) ==
  LET cur == s.current
      cs1 == pauseAllCalls(cur, calls)
      c == Len(calls) + 1
      new == [NewCall(YouTubeItem(v), "start", cur, via) EXCEPT !.start = start]
  IN /\ aud' = pauseAllAud(cur, aud)
     /\ ytInst' = pauseAllYt(cur, players, ytInst)
     /\ tupd' = tupd \cup NewlyPaused(aud, aud')
     /\ ensureYouTubePlayer(Append(cs1, new), c, v)
     /\ UNCHANGED <<audioRef, scriptFailed, players, position, elTime, elDur, subVars>>

requestPlayYouTube(v, start) ==
  /\ mq = <<>>
  /\ Len(calls) < MaxCalls
  /\ requestPlayYouTubeStart(state, v, "play", start)
  /\ state' = pauseAllState(state)
  /\ lastOp' = Op("requestPlayYouTube", v)
  /\ RunEffects
  /\ RecordDeactivated

\* continuation after `await ensureYouTubePlayer(videoId)`: ytSeekTo when
\* meta.startSeconds is a number, ytPlay and setState
requestPlayYouTubeResume(c) ==
  /\ mq # <<>> /\ Head(mq) = c
  /\ calls[c].pc = "ensured" /\ calls[c].via \in {"play", "next", "prev"}
  /\ LET v == calls[c].item.id
         sought == IF calls[c].start = NoStart THEN ytInst
                   ELSE ytSeekTo(players, ytInst, v, calls[c].start)
     IN ytInst' = play(players, sought, v)
  /\ state' = PlayedState(calls[c].item, TRUE)
  /\ calls' = [calls EXCEPT ![c].pc = "done", ![c].res = "ok"]
  /\ mq' = Tail(mq)
  /\ lastOp' = Op("none", "none")
  /\ UNCHANGED <<audioRef, aud, scriptsInjected, apiReadyPromise, scriptFailed, players,
                 timeVars, subVars>>
  /\ RunEffects
  /\ RecordDeactivated

\* the poll effect (every 500 ms while current is a YouTube item):
\* setPosition(ytGetTimes(id).current)
PollYouTube ==
  /\ mq = <<>>
  /\ pollTimer # "none"
  /\ position' = getTimes(players, ytInst, pollTimer).current
  /\ lastOp' = Op("none", "none")
  /\ UNCHANGED <<coordVars, aud, elTime, elDur, tupd, bridgeVars, subVars, calls, mq>>
  /\ RunEffects
  /\ RecordDeactivated

\* ------------------------------------------------ synchronous operations
pauseAll ==
  /\ mq = <<>>
  /\ aud' = pauseAllAud(state.current, aud)
  /\ ytInst' = pauseAllYt(state.current, players, ytInst)
  /\ tupd' = tupd \cup NewlyPaused(aud, aud')
  /\ calls' = pauseAllCalls(state.current, calls)
  /\ mq' = mq \o Settled(calls, calls')
  /\ state' = pauseAllState(state)
  /\ lastOp' = Op("pauseAll", "none")
  /\ UNCHANGED <<audioRef, scriptsInjected, apiReadyPromise, scriptFailed, players,
                 position, elTime, elDur, subVars>>
  /\ RunEffects
  /\ RecordDeactivated

\* stop(): pauseAll(), then setState(s => ({...s, current: s.current, playing: false}))
stop ==
  /\ mq = <<>>
  /\ aud' = pauseAllAud(state.current, aud)
  /\ ytInst' = pauseAllYt(state.current, players, ytInst)
  /\ tupd' = tupd \cup NewlyPaused(aud, aud')
  /\ calls' = pauseAllCalls(state.current, calls)
  /\ mq' = mq \o Settled(calls, calls')
  /\ state' = [pauseAllState(state) EXCEPT !.playing = FALSE]
  /\ lastOp' = Op("stop", "none")
  /\ UNCHANGED <<audioRef, scriptsInjected, apiReadyPromise, scriptFailed, players,
                 position, elTime, elDur, subVars>>
  /\ RunEffects
  /\ RecordDeactivated

\* (mutant: toggle without its `if (!cur) return`)
toggleUnguarded ==
  /\ mq = <<>>
  /\ lastOp' = Op("toggle", "none")
  /\ state' = [state EXCEPT !.playing = ~@]
  /\ UNCHANGED <<audioRef, position, aud, elTime, elDur, tupd, bridgeVars, subVars,
                 calls, mq>>
  /\ RunEffects
  /\ RecordDeactivated

\* toggle(): the audio branch acts on audioRef.current and its paused
\* attribute, the youtube branch on state.playing; both flip state.playing
\* (play() on an element that has ended rewinds it)
toggle ==
  /\ mq = <<>>
  /\ lastOp' = Op("toggle", "none")
  /\ LET cur == state.current IN
     IF cur = Null THEN UNCHANGED progVars
     ELSE /\ state' = [state EXCEPT !.playing = ~@]
          /\ UNCHANGED <<audioRef, scriptsInjected, apiReadyPromise, scriptFailed, players,
                         position, elDur, subVars>>
          /\ IF cur.type = "audio"
             THEN /\ aud' = IF audioRef = "none" THEN aud
                            ELSE IF ElPaused(aud, audioRef)
                                 THEN [aud EXCEPT ![audioRef] = "starting"]
                                 ELSE ElPause(aud, audioRef)
                  /\ calls' = IF audioRef = "none" \/ ElPaused(aud, audioRef) THEN calls
                              ELSE AbortPlay(calls, audioRef)
                  /\ elTime' = IF audioRef # "none" /\ aud[audioRef] = "ended"
                               THEN [elTime EXCEPT ![audioRef] = 0] ELSE elTime
                  /\ tupd' = (tupd \cup NewlyPaused(aud, aud'))
                               \cup {e \in AudioIds : elTime'[e] # elTime[e]}
                  /\ mq' = mq \o Settled(calls, calls')
                  /\ UNCHANGED ytInst
             ELSE /\ ytInst' = IF state.playing THEN pause(players, ytInst, cur.id)
                               ELSE play(players, ytInst, cur.id)
                  /\ UNCHANGED <<aud, elTime, tupd, calls, mq>>
  /\ RunEffects
  /\ RecordDeactivated

\* seekBy(delta): the target is brought into [0, duration] of the element
\* audioRef holds, or of the player of current
seekBy(delta) ==
  /\ mq = <<>>
  /\ lastOp' = SeekOp("seekBy", "none", delta)
  /\ LET cur == state.current IN
     IF cur = Null \/ (cur.type = "audio" /\ audioRef = "none")
     THEN UNCHANGED progVars
     ELSE /\ UNCHANGED <<coordVars, aud, elDur, scriptsInjected, apiReadyPromise,
                         scriptFailed, players, subVars, calls, mq>>
          /\ IF cur.type = "audio"
             THEN LET nxt == Clamp(elTime[audioRef] + delta, elDur[audioRef])
                  IN /\ elTime' = [elTime EXCEPT ![audioRef] = Seek(nxt, elDur[audioRef])]
                     /\ tupd' = tupd \cup {audioRef}
                     /\ position' = nxt
                     /\ UNCHANGED ytInst
             ELSE LET times == getTimes(players, ytInst, cur.id)
                      nxt == Clamp(times.current + delta, times.duration)
                  IN /\ ytInst' = ytSeekTo(players, ytInst, cur.id, nxt)
                     /\ position' = nxt
                     /\ UNCHANGED <<elTime, tupd>>
  /\ RunEffects
  /\ RecordDeactivated

\* seekTo(seconds): the value goes to the element or the player, and to
\* position, as it is
seekTo(seconds) ==
  /\ mq = <<>>
  /\ lastOp' = SeekOp("seekTo", "none", seconds)
  /\ LET cur == state.current IN
     IF cur = Null \/ (cur.type = "audio" /\ audioRef = "none")
     THEN UNCHANGED progVars
     ELSE /\ UNCHANGED <<coordVars, aud, elDur, scriptsInjected, apiReadyPromise,
                         scriptFailed, players, subVars, calls, mq>>
          /\ position' = seconds
          /\ IF cur.type = "audio"
             THEN /\ elTime' = [elTime EXCEPT ![audioRef] = Seek(seconds, elDur[audioRef])]
                  /\ tupd' = tupd \cup {audioRef}
                  /\ UNCHANGED ytInst
             ELSE /\ ytInst' = ytSeekTo(players, ytInst, cur.id, seconds)
                  /\ UNCHANGED <<elTime, tupd>>
  /\ RunEffects
  /\ RecordDeactivated

\* next()/prev() on the queue position to (0-based): requestPlay* of
\* queue[to], then setState(s => ({...s, index: to}))
PlayQueued(to, via) ==
  LET item == state.queue[to + 1]
  IN /\ Len(calls) < MaxCalls
     /\ IF item.type = "audio"
        THEN requestPlayAudioStart(state, item.id, via)
        ELSE requestPlayYouTubeStart(state, item.id, via, NoStart)
     /\ state' = [pauseAllState(state) EXCEPT !.index = to]

next ==
  /\ mq = <<>>
  /\ lastOp' = Op("next", "none")
  /\ IF Len(state.queue) <= 1 THEN UNCHANGED progVars
     ELSE PlayQueued(Min(Len(state.queue) - 1, state.index + 1), "next")
  /\ RunEffects
  /\ RecordDeactivated

prev ==
  /\ mq = <<>>
  /\ lastOp' = Op("prev", "none")
  /\ IF Len(state.queue) <= 1 THEN UNCHANGED progVars
     ELSE PlayQueued(Max(0, state.index - 1), "prev")
  /\ RunEffects
  /\ RecordDeactivated

\* ------------------------------------------------------------------- Next
CallIds == 1..MaxCalls

\* requesting, navigating and pausing, with the events that settle a request
NextPlay ==
  \/ \E e \in AudioIds : requestPlayAudio(e)
  \/ \E v \in VideoIds, start \in StartSeconds : requestPlayYouTube(v, start)
  \/ \E c \in DOMAIN calls : requestPlayAudioResolved(c)
  \/ \E c \in DOMAIN calls : requestPlayAudioRejected(c)
  \/ \E c \in DOMAIN calls : requestPlayYouTubeResume(c)
  \/ \E c \in DOMAIN calls : ensureYouTubePlayerConstruct(c)
  \/ \E c \in DOMAIN calls : ensureYouTubePlayerThrows(c)
  \/ \E e \in AudioIds : AudioPlaying(e)
  \/ \E e \in AudioIds : AudioError(e)
  \/ ApiReady
  \/ ScriptError
  \/ \E v \in VideoIds, n \in CallIds : PlayerReady(v, n)
  \/ pauseAll
  \/ stop
  \/ toggle
  \/ next
  \/ prev

\* the passing of playback time, seeking and the position poll
NextTime ==
  \/ \E e \in AudioIds : AudioTimeUpdate(e)
  \/ \E e \in AudioIds : AudioSeeked(e)
  \/ \E e \in AudioIds : AudioEnded(e)
  \/ \E v \in VideoIds, n \in CallIds : PlayerTimeAdvance(v, n)
  \/ \E v \in VideoIds, n \in CallIds : PlayerEnded(v, n)
  \/ PollYouTube
  \/ \E delta \in SeekDeltas : seekBy(delta)
  \/ \E seconds \in SeekTargets : seekTo(seconds)

Next == NextPlay \/ NextTime

Spec == Init /\ [][Next]_vars

\* ------------------------------------------- the bridge called directly
\* ensureYouTubePlayer(videoId) called by a caller other than the provider
\* (the mount effect of the YouTubeAudioPlayer widget)
callEnsureYouTubePlayer(v) ==
  /\ mq = <<>>
  /\ Len(calls) < MaxCalls
  /\ ensureYouTubePlayer(
       Append(calls, NewCall(YouTubeItem(v), "start", state.current, "ensure")),
       Len(calls) + 1, v)
  /\ lastOp' = Op("ensureYouTubePlayer", v)
  /\ UNCHANGED <<coordVars, aud, timeVars, scriptFailed, players, ytInst, subVars>>
  /\ RunEffects
  /\ RecordDeactivated

\* ... and its promise resolving to that caller
ensureYouTubePlayerReturns(c) ==
  /\ mq # <<>> /\ Head(mq) = c
  /\ calls[c].pc = "ensured" /\ calls[c].via = "ensure"
  /\ calls' = [calls EXCEPT ![c].pc = "done", ![c].res = "ok"]
  /\ mq' = Tail(mq)
  /\ lastOp' = Op("none", "none")
  /\ UNCHANGED <<coordVars, aud, bridgeVars, timeVars, subVars>>
  /\ RunEffects
  /\ RecordDeactivated

callPlay(v) ==
  /\ mq = <<>>
  /\ ytInst' = play(players, ytInst, v)
  /\ lastOp' = Op("play", v)
  /\ UNCHANGED <<coordVars, aud, timeVars, scriptsInjected, apiReadyPromise, scriptFailed,
                 players, subVars, calls, mq>>
  /\ RunEffects
  /\ RecordDeactivated

callPause(v) ==
  /\ mq = <<>>
  /\ ytInst' = pause(players, ytInst, v)
  /\ lastOp' = Op("pause", v)
  /\ UNCHANGED <<coordVars, aud, timeVars, scriptsInjected, apiReadyPromise, scriptFailed,
                 players, subVars, calls, mq>>
  /\ RunEffects
  /\ RecordDeactivated

callSeekTo(v, seconds) ==
  /\ mq = <<>>
  /\ ytInst' = ytSeekTo(players, ytInst, v, seconds)
  /\ lastOp' = SeekOp("seekTo", v, seconds)
  /\ UNCHANGED <<coordVars, aud, timeVars, scriptsInjected, apiReadyPromise, scriptFailed,
                 players, subVars, calls, mq>>
  /\ RunEffects
  /\ RecordDeactivated

\* getTimes(videoId) reads only: what it returns is getTimes(players, ytInst, v)
callGetTimes(v) ==
  /\ mq = <<>>
  /\ lastOp' = Op("getTimes", v)
  /\ UNCHANGED progVars
  /\ RunEffects
  /\ RecordDeactivated

\* subscribe(videoId, fn) with a callback of its own (a fresh closure): fn
\* joins the listener set of v
subscribe(v) ==
  /\ mq = <<>>
  /\ Len(subs) < MaxSubs
  /\ subs' = Append(subs, [v |-> v, unsub |-> FALSE, got |-> 0])
  /\ listeners' = [listeners EXCEPT ![v] = @ \cup {Len(subs) + 1}]
  /\ lastOp' = Op("subscribe", v)
  /\ UNCHANGED <<coordVars, aud, timeVars, bridgeVars, widgets, calls, mq>>
  /\ RunEffects
  /\ RecordDeactivated

\* the function subscribe() returned for callback i: set.delete(fn)
unsubscribe(i) ==
  /\ mq = <<>>
  /\ listeners' = [listeners EXCEPT ![subs[i].v] = @ \ {i}]
  /\ subs' = [subs EXCEPT ![i].unsub = TRUE]
  /\ lastOp' = Op("unsubscribe", subs[i].v)
  /\ UNCHANGED <<coordVars, aud, timeVars, bridgeVars, widgets, calls, mq>>
  /\ RunEffects
  /\ RecordDeactivated

\* the bridge under callers of its exported functions
NextBridge ==
  \/ \E v \in VideoIds : callEnsureYouTubePlayer(v)
  \/ \E c \in DOMAIN calls : ensureYouTubePlayerReturns(c)
  \/ \E c \in DOMAIN calls : ensureYouTubePlayerConstruct(c)
  \/ \E c \in DOMAIN calls : ensureYouTubePlayerThrows(c)
  \/ ApiReady
  \/ ScriptError
  \/ \E v \in VideoIds, n \in CallIds : PlayerReady(v, n)
  \/ \E v \in VideoIds, n \in CallIds : PlayerTimeAdvance(v, n)
  \/ \E v \in VideoIds, n \in CallIds : PlayerEnded(v, n)
  \/ \E v \in VideoIds : callPlay(v)
  \/ \E v \in VideoIds : callPause(v)
  \/ \E v \in VideoIds, seconds \in SeekTargets : callSeekTo(v, seconds)
  \/ \E v \in VideoIds : callGetTimes(v)
  \/ \E v \in VideoIds : subscribe(v)
  \/ \E i \in DOMAIN subs : unsubscribe(i)

SpecBridge == Init /\ [][NextBridge]_vars

\* ------------------------------------------ the YouTubeAudioPlayer widget
\* the mount effect up to its await: `let unsubscribe = null`, then
\* `await ensureYouTubePlayer(vid)` in an async function that is not awaited
widgetMount(v) ==
  /\ mq = <<>>
  /\ Len(calls) < MaxCalls
  /\ Len(widgets) < MaxSubs
  /\ ensureYouTubePlayer(
       Append(calls, NewCall(YouTubeItem(v), "start", state.current, "mount")),
       Len(calls) + 1, v)
  /\ widgets' = Append(widgets, [vid |-> v, call |-> Len(calls) + 1,
                                 mounted |-> TRUE, unsubscribe |-> 0])
  /\ lastOp' = Op("mount", v)
  /\ UNCHANGED <<coordVars, aud, timeVars, scriptFailed, players, ytInst, listeners, subs>>
  /\ RunEffects
  /\ RecordDeactivated

\* its continuation: setReady(true); unsubscribe = subscribe(vid, callback).
\* Nothing in it asks whether the widget is still mounted.
widgetSubscribe(w) ==
  /\ mq # <<>> /\ Head(mq) = widgets[w].call
  /\ calls[widgets[w].call].pc = "ensured"
  /\ subs' = Append(subs, [v |-> widgets[w].vid, unsub |-> FALSE, got |-> 0])
  /\ listeners' = [listeners EXCEPT ![widgets[w].vid] = @ \cup {Len(subs) + 1}]
  /\ widgets' = [widgets EXCEPT ![w].unsubscribe = Len(subs) + 1]
  /\ calls' = [calls EXCEPT ![widgets[w].call].pc = "done", ![widgets[w].call].res = "ok"]
  /\ mq' = Tail(mq)
  /\ lastOp' = Op("subscribe", widgets[w].vid)
  /\ UNCHANGED <<coordVars, aud, timeVars, bridgeVars>>
  /\ RunEffects
  /\ RecordDeactivated

\* the cleanup of the mount effect: `if (unsubscribe) unsubscribe()`
widgetUnmount(w) ==
  /\ mq = <<>>
  /\ widgets[w].mounted
  /\ widgets' = [widgets EXCEPT ![w].mounted = FALSE]
  /\ IF widgets[w].unsubscribe # 0
     THEN /\ listeners' = [listeners EXCEPT ![widgets[w].vid] = @ \ {widgets[w].unsubscribe}]
          /\ subs' = [subs EXCEPT ![widgets[w].unsubscribe].unsub = TRUE]
     ELSE UNCHANGED <<listeners, subs>>
  /\ lastOp' = Op("unmount", widgets[w].vid)
  /\ UNCHANGED <<coordVars, aud, timeVars, bridgeVars, calls, mq>>
  /\ RunEffects
  /\ RecordDeactivated

\* widgets mounting and unmounting, their play button (requestPlayYouTube)
\* and the bridge's events
NextWidget ==
  \/ \E v \in VideoIds : widgetMount(v)
  \/ \E w \in DOMAIN widgets : widgetSubscribe(w)
  \/ \E w \in DOMAIN widgets : widgetUnmount(w)
  \/ \E v \in VideoIds, start \in StartSeconds : requestPlayYouTube(v, start)
  \/ \E c \in DOMAIN calls : requestPlayYouTubeResume(c)
  \/ \E c \in DOMAIN calls : ensureYouTubePlayerConstruct(c)
  \/ \E c \in DOMAIN calls : ensureYouTubePlayerThrows(c)
  \/ ApiReady
  \/ ScriptError
  \/ \E v \in VideoIds, n \in CallIds : PlayerReady(v, n)
  \/ \E v \in VideoIds, n \in CallIds : PlayerTimeAdvance(v, n)
  \/ \E v \in VideoIds, n \in CallIds : PlayerEnded(v, n)

SpecWidget == Init /\ [][NextWidget]_vars

\* ------------------------------------------------------------- scheduling
\* the event loop runs every queued continuation; a load that was started
\* ends, in success or in failure; a constructed player fires onReady
Fairness ==
  /\ \A c \in CallIds :
       WF_vars(\/ requestPlayAudioResolved(c) \/ requestPlayAudioRejected(c)
               \/ requestPlayYouTubeResume(c)
               \/ ensureYouTubePlayerConstruct(c) \/ ensureYouTubePlayerThrows(c))
  /\ \A e \in AudioIds : WF_vars(AudioPlaying(e) \/ AudioError(e))
  /\ WF_vars(ApiReady \/ ScriptError)
  /\ \A v \in VideoIds, n \in CallIds : WF_vars(PlayerReady(v, n))

SpecLive == Init /\ [][NextPlay]_vars /\ Fairness

\* --------------------------------------------------------- a seeded queue
\* NowPlayingState admits any queue (NowPlayingKind[]), and next()/prev() are
\* written for queues of several entries, but no operation of the provider
\* builds such a queue.  SpecQueue starts the same operations from a
\* NowPlayingState holding a queue of distinct items with index on current,
\* the backing resource of current loaded and playing or paused as state.playing
\* says, and nothing in flight.
Injective(q) == \A i, j \in DOMAIN q : q[i] = q[j] => i = j

QueueSeeds ==
  {q \in UNION {[1..n -> NowPlayingKind] : n \in 1..MaxQueue} : Injective(q)}

InitQueue ==
  \E q \in QueueSeeds, i \in 0..(MaxQueue - 1), p \in BOOLEAN :
    /\ i < Len(q)
    /\ LET cur == q[i + 1] IN
       /\ state = [current |-> cur, playing |-> p, queue |-> q, index |-> i]
       /\ audioRef = IF cur.type = "audio" THEN cur.id ELSE "none"
       /\ position = 0
       /\ aud = [e \in AudioIds |->
                   IF cur = AudioItem(e) /\ p THEN "playing" ELSE "paused"]
       /\ elTime = [e \in AudioIds |-> 0]
       /\ elDur = [e \in AudioIds |-> IF cur = AudioItem(e) THEN Duration ELSE 0]
       /\ tupd = {}
       /\ scriptsInjected = IF cur.type = "youtube" THEN 1 ELSE 0
       /\ apiReadyPromise = IF cur.type = "youtube" THEN "resolved" ELSE "null"
       /\ scriptFailed = FALSE
       /\ players = [v \in VideoIds |-> IF cur = YouTubeItem(v) THEN 1 ELSE 0]
       /\ ytInst = [v \in VideoIds |->
                      IF cur = YouTubeItem(v)
                      THEN <<[ready |-> TRUE, st |-> IF p THEN "playing" ELSE "paused",
                             t |-> 0]>>
                      ELSE <<>>]
       /\ listeners = [v \in VideoIds |-> {}]
       /\ subs = <<>>
       /\ widgets = <<>>
       /\ playbackState = playbackStateOf(state)
       /\ pollTimer = pollTimerOf(state)
       /\ deact = {}
       /\ calls = <<>>
       /\ mq = <<>>
       /\ lastOp = Op("none", "none")

SpecQueue == InitQueue /\ [][NextPlay]_vars

\* --------------------------------------------------------------------
\* Properties
\* --------------------------------------------------------------------
Settled1(c) == calls[c].pc \in {"done", "rejected"}
AllSettled == \A c \in DOMAIN calls : Settled1(c)
Idle == AllSettled /\ mq = <<>>

\* the backing resources that are in their native playing state
AudSounding(e) == aud[e] = "playing"
YtSounding(v) == \E n \in DOMAIN ytInst[v] : ytInst[v][n].st = "playing"
Sounding(item) ==
  IF item.type = "audio" THEN AudSounding(item.id)
  ELSE IF item.type = "youtube" THEN YtSounding(item.id)
  ELSE FALSE
NativePlaying == {i \in NowPlayingKind : Sounding(i)}

\* C1: once every requestPlayAudio / requestPlayYouTube call has settled, at
\* most one backing resource (audio element or embedded player) is in the
\* native playing state.
C1_AtMostOnePlaying ==
  (calls # <<>> /\ Idle) => Cardinality(NativePlaying) <= 1

\* C2: the completion of a requestPlay that a newer requestPlay has already
\* overtaken (the newer call has completed) assigns no coordinator state and
\* issues no native or Bridge play.
C2_StaleCompletionDiscarded ==
  [][\A c \in DOMAIN calls :
       ( /\ calls[c].pc # "done" /\ calls'[c].pc = "done"
         /\ \E d \in DOMAIN calls : d > c /\ calls[d].pc = "done" )
       => (state' = state /\ aud' = aud /\ ytInst' = ytInst)]_vars

\* C3: for each media identifier at most one third-party player is ever
\* constructed.
C3_OnePlayerPerId ==
  \A v \in VideoIds : Len(ytInst[v]) <= 1

\* Sounding, read in the state (a, yi) of the native resources
SoundingIn(a, yi, item) ==
  IF item.type = "audio" THEN a[item.id] \in {"starting", "playing"}
  ELSE IF item.type = "youtube"
       THEN \E n \in DOMAIN yi[item.id] : yi[item.id][n].st = "playing"
       ELSE FALSE

\* C4: a requestPlay called while another item is current pauses that item's
\* backing resource in its synchronous first part, before the native play of
\* the requested item, and the step that handles a failed activation does not
\* touch the native resources, so the paused resource stays paused.
C4_PreviousPausedFirst ==
  [][ /\ Len(calls') = Len(calls) + 1 =>
           LET new == calls'[Len(calls')] IN
           (new.prev # Null /\ new.prev # new.item)
             => ~SoundingIn(aud', ytInst', new.prev)
      /\ \A c \in DOMAIN calls :
           (calls[c].res = "pending" /\ calls'[c].res \in {"failed", "threw"})
             => (aud' = aud /\ ytInst' = ytInst) ]_vars

\* a requestPlay found a playing item current, paused it, and then failed
C4_Witness ==
  \E c \in DOMAIN calls :
    /\ calls[c].res \in {"failed", "threw"}
    /\ calls[c].prev # Null /\ calls[c].prev # calls[c].item
    /\ IF calls[c].prev.type = "audio"
       THEN aud[calls[c].prev.id] = "paused"
       ELSE /\ players[calls[c].prev.id] # 0
            /\ ytInst[calls[c].prev.id][players[calls[c].prev.id]].st = "paused"

\* C5: when the activation of the requested item fails, requestPlay does not
\* reject to its caller and the state ends with current = the requested item
\* and playing = false, for audio and for YouTube items.
C5_FailureAbsorbed ==
  [][\A c \in DOMAIN calls :
       (calls[c].res = "pending" /\ calls'[c].res \in {"failed", "threw"})
       => ( /\ calls'[c].pc = "done"
            /\ state'.current = calls[c].item
            /\ state'.playing = FALSE )]_vars

InQueue(item, q) == \E i \in DOMAIN q : q[i] = item

\* the step on which call c settles with a successful activation while no
\* newer requestPlay has been called
Succeeds(c) ==
  /\ c \in DOMAIN calls /\ c = Len(calls)
  /\ calls[c].res = "pending" /\ calls'[c].res = "ok"

Navigates(via) ==
  /\ Len(calls') = Len(calls) + 1
  /\ calls'[Len(calls')].via = via

CurrentSounding ==
  IF state.current.type = "audio"
  THEN aud[state.current.id] \in {"starting", "playing"}
  ELSE IF state.current.type = "youtube"
       THEN /\ players[state.current.id] # 0
            /\ ytInst[state.current.id][players[state.current.id]].st = "playing"
       ELSE FALSE

\* C10: whenever no coordinator operation is in progress, playing = true
\* exactly when the backing resource of current is in its native playing state.
C10_PlayingMirrorsNative ==
  Idle => (state.playing <=> CurrentSounding)

\* the source the seek operations act on: the element audioRef holds for an
\* audio item, the recorded player for a YouTube item
HasActive ==
  /\ state.current # Null
  /\ state.current.type = "audio" => audioRef # "none"
ActivePosition ==
  IF state.current.type = "audio" THEN elTime[audioRef]
  ELSE getTimes(players, ytInst, state.current.id).current
ActiveDuration ==
  IF state.current.type = "audio" THEN elDur[audioRef]
  ELSE getTimes(players, ytInst, state.current.id).duration

\* C11: seekTo(seconds) on an active source of known duration d sets the
\* position to min(max(seconds, 0), d).
C11_SeekToClamps ==
  [][\A seconds \in SeekTargets :
       (seekTo(seconds) /\ HasActive /\ ActiveDuration > 0)
         => position' = Min(Max(seconds, 0), ActiveDuration)]_vars

\* C12: seekBy(delta) on an active source with position p and known duration
\* d sets the position of the source and the position of the coordinator to
\* min(max(p + delta, 0), d), a value in [0, d], for audio and YouTube items.
C12_SeekByClamps ==
  [][\A delta \in SeekDeltas :
       (seekBy(delta) /\ HasActive /\ ActiveDuration > 0)
         => /\ position' = Min(Max(ActivePosition + delta, 0), ActiveDuration)
            /\ position' \in 0..ActiveDuration
            /\ ActivePosition' = position'
            /\ ActiveDuration' = ActiveDuration]_vars

\* a seekBy beyond the end of a YouTube item of known duration stopped at the end
C12_Witness ==
  /\ lastOp.op = "seekBy" /\ lastOp.arg = Duration + 1
  /\ state.current.type = "youtube"
  /\ ActiveDuration = Duration
  /\ position = Duration /\ ActivePosition = Duration

\* the state a requestPlayAudio leaves when its play() promise resolved and
\* no later requestPlay was called
JustPlayedAudio ==
  /\ state.current.type = "audio"
  /\ state.playing
  /\ audioRef = state.current.id
  /\ aud[state.current.id] = "playing"

\* C13: a requestPlayAudio whose resource loads ends with current = the
\* requested item and playing = true, and a toggle() called in that state ends
\* with playing = false and the audio element paused.
C13_PlayThenToggle ==
  [][ /\ \A c \in DOMAIN calls :
           (Succeeds(c) /\ calls[c].item.type = "audio")
             => /\ state'.current = calls[c].item
                /\ state'.playing = TRUE
                /\ JustPlayedAudio'
      /\ (toggle /\ JustPlayedAudio)
           => /\ state'.playing = FALSE
              /\ aud'[state.current.id] = "paused"
              /\ state'.current = state.current ]_vars

\* one requestPlayAudio succeeded and the toggle() after it paused the element
C13_Witness ==
  /\ lastOp.op = "toggle"
  /\ Len(calls) = 1 /\ calls[1].res = "ok"
  /\ state.current.type = "audio" /\ state.current = calls[1].item
  /\ state.playing = FALSE
  /\ aud[state.current.id] = "paused"

\* C14: an ensureYouTubePlayer call has resolved (its caller resumes, or has
\* resumed) only if the player it was handed has fired onReady.
C14_ResolvesAfterReady ==
  \A c \in DOMAIN calls :
    (calls[c].item.type = "youtube" /\ calls[c].pc \in {"ensured", "done"})
      => ytInst[calls[c].item.id][calls[c].inst].ready

\* C15: the iframe_api script tag is appended once: never twice, and it is
\* there as soon as an ensureYouTubePlayer call has had to load the API.
C15_ScriptInjectedOnce ==
  /\ scriptsInjected <= 1
  /\ apiReadyPromise # "null" => scriptsInjected = 1
  /\ (\E c \in DOMAIN calls :
        calls[c].pc \in {"awaitApi", "apiResolved", "awaitReady"}) => scriptsInjected = 1

\* two ensureYouTubePlayer calls for different ids were waiting for the API
\* at once, and both have built their player
C15_Witness ==
  /\ Len(calls) = 2
  /\ calls[1].item # calls[2].item
  /\ calls[1].inst = 1 /\ calls[2].inst = 1
  /\ \A v \in VideoIds : Len(ytInst[v]) = 1
  /\ scriptsInjected = 1

\* C19: a video id that has a player in the players map keeps that player:
\* the entry is never removed nor replaced.
C19_PlayerKept ==
  [][\A v \in VideoIds : players[v] # 0 => players'[v] = players[v]]_vars

\* C16: stop() and pauseAll() lead from the same state to the same state and
\* native effects: what stop() leaves is what pauseAll() computes, playing is
\* false, the backing resource of current is not playing, and current, queue
\* and index are unchanged.
C16_StopIsPauseAll ==
  [][(stop \/ pauseAll)
       => /\ state' = pauseAllState(state)
          /\ aud' = pauseAllAud(state.current, aud)
          /\ ytInst' = pauseAllYt(state.current, players, ytInst)
          /\ calls' = pauseAllCalls(state.current, calls)
          /\ UNCHANGED <<audioRef, position, elTime, elDur, players, listeners, subs>>
          /\ state'.playing = FALSE
          /\ ~SoundingIn(aud', ytInst', state.current)
          /\ state'.current = state.current
          /\ state'.queue = state.queue
          /\ state'.index = state.index ]_vars

\* stop() was called on a playing item and left it paused
C16_Witness ==
  /\ lastOp.op = "stop"
  /\ state.current # Null /\ state.playing = FALSE
  /\ \E c \in DOMAIN calls : calls[c].res = "ok" /\ calls[c].item = state.current
  /\ IF state.current.type = "audio" THEN aud[state.current.id] = "paused"
     ELSE /\ players[state.current.id] # 0
          /\ ytInst[state.current.id][players[state.current.id]].st = "paused"

\* C17: with current = null, toggle(), pauseAll(), stop(), seekBy(), seekTo(),
\* next() and prev() change nothing: not current, playing, queue, index or
\* position, and no media element, player or pending request.
C17_NullCurrentNoOp ==
  [][(/\ state.current = Null
      /\ \/ toggle \/ pauseAll \/ stop \/ next \/ prev
         \/ \E delta \in SeekDeltas : seekBy(delta)
         \/ \E seconds \in SeekTargets : seekTo(seconds))
       => UNCHANGED progVars]_vars

\* toggle() was called while a request was in flight and current still null
C17_Witness ==
  /\ state.current = Null
  /\ lastOp.op = "toggle"
  /\ \E c \in DOMAIN calls : calls[c].res = "pending"

\* C18: for a video id with no entry in the players map, play, pause and
\* seekTo change nothing and create no entry, and getTimes returns
\* {current: 0, duration: 0}.
C18_NoPlayerNoOp ==
  [][\A v \in VideoIds :
       players[v] = 0 =>
         /\ (\/ callPlay(v) \/ callPause(v) \/ callGetTimes(v)
             \/ \E seconds \in SeekTargets : callSeekTo(v, seconds))
              => UNCHANGED progVars
         /\ getTimes(players, ytInst, v) = [current |-> 0, duration |-> 0]
         /\ play(players, ytInst, v) = ytInst
         /\ pause(players, ytInst, v) = ytInst
         /\ \A seconds \in SeekTargets : ytSeekTo(players, ytInst, v, seconds) = ytInst]_vars

\* seekTo was called for a video that has no player, while another video has one
C18_Witness ==
  /\ lastOp.op = "seekTo" /\ lastOp.id \in VideoIds
  /\ players[lastOp.id] = 0
  /\ \E w \in VideoIds : players[w] # 0 /\ ytInst[w][players[w]].ready

\* the step is a ready or state event of a player of v
PlayerEvent(v) ==
  /\ lastOp'.op \in {"onReady", "onStateChange"}
  /\ lastOp'.id = v

\* C20: a ready or state event of a player of v is delivered once to every
\* callback subscribed to v and not unsubscribed, and to no other callback;
\* no other step delivers anything.
C20_EventFanOut ==
  [][ /\ Len(subs') >= Len(subs)
      /\ \A i \in DOMAIN subs :
           subs'[i].got =
             subs[i].got +
               (IF \E v \in VideoIds :
                     PlayerEvent(v) /\ subs[i].v = v /\ ~subs[i].unsub
                THEN 1 ELSE 0) ]_vars

\* two callbacks subscribed to the same video; one unsubscribed after its
\* first event, the other went on receiving
C20_Witness ==
  \E i, j \in DOMAIN subs :
    /\ subs[i].v = subs[j].v
    /\ subs[i].unsub /\ ~subs[j].unsub
    /\ subs[i].got = 1 /\ subs[j].got = 2

\* C21: the playbackState flag of navigator.mediaSession mirrors state.playing:
\* it is 'playing' exactly when playing = true and 'paused' otherwise.
C21_PlaybackStateMirrorsPlaying ==
  /\ playbackState \in {"playing", "paused"}
  /\ playbackState = "playing" <=> state.playing

\* a toggle() resumed a paused item and the flag followed
C21_Witness ==
  /\ lastOp.op = "toggle"
  /\ state.current # Null /\ state.playing
  /\ playbackState = "playing"

\* C22: when pauseAll() or stop() was called while a requestPlayYouTube was
\* awaiting its player, the step on which that request settles assigns no
\* coordinator state, and if nothing else is then in flight playing = false.
C22_DeactivatedNotForwarded ==
  [][\A c \in DOMAIN calls :
       (c \in deact /\ calls[c].res = "pending" /\ calls'[c].res # "pending")
         => /\ state' = state
            /\ Idle' => ~state'.playing]_vars

\* C23: the poll timer runs only for the YouTube item that is the active
\* source: it polls the item that is current, and it is cleared by the step
\* that deactivates the item (pauseAll, stop) and by the step that requests
\* another item.
C23_PollStopsWhenDeactivated ==
  [][ /\ pollTimer' # "none" => state'.current = YouTubeItem(pollTimer')
      /\ (pauseAll \/ stop) => pollTimer' = "none"
      /\ ( /\ Len(calls') = Len(calls) + 1
           /\ calls'[Len(calls')].via \in {"play", "next", "prev"}
           /\ calls'[Len(calls')].item # YouTubeItem(pollTimer) )
           => pollTimer' = "none" ]_vars

\* C24: every requestPlayAudio / requestPlayYouTube call eventually settles
\* (its promise resolves or rejects), also when the iframe_api script fails
\* to load.
C24_EveryRequestSettles ==
  \A c \in CallIds :
    (c \in DOMAIN calls) ~> (c \in DOMAIN calls /\ Settled1(c))

\* C25: seekBy(delta) and seekTo(seconds) on an active source whose duration
\* is unknown (0) change neither the position of the source nor the position
\* of the coordinator.
C25_SeekUnknownDurationIgnored ==
  [][( /\ HasActive /\ ActiveDuration = 0
       /\ \/ \E delta \in SeekDeltas : seekBy(delta)
          \/ \E seconds \in SeekTargets : seekTo(seconds) )
       => /\ position' = position
          /\ ActivePosition' = ActivePosition]_vars

\* C26: when the element of the current audio item plays to its end, the
\* ended notification reaches the coordinator: the step changes the
\* coordinator's state or starts a request (as timeupdate changes position).
C26_EndedReachesCoordinator ==
  [][\A e \in AudioIds :
       (AudioEnded(e) /\ state.current = AudioItem(e) /\ audioRef = e)
         => (state' # state \/ calls' # calls \/ position' # position)]_vars

\* C27: the coordinator is always in one of Idle (current = null, playing =
\* false), Loaded-Paused (current set, playing = false) and Loaded-Playing
\* (current set, playing = true): playing = true never holds with current = null.
C27_NeverPlayingWhenIdle ==
  /\ state.current \in NowPlayingKind \cup {Null}
  /\ state.playing \in BOOLEAN
  /\ state.current = Null => state.playing = FALSE

\* stop() was called in Idle while a requestPlayYouTube was awaiting its player
C27_Witness ==
  /\ state.current = Null /\ state.playing = FALSE
  /\ lastOp.op = "stop"
  /\ \E c \in DOMAIN calls : calls[c].pc = "awaitReady"

\* C28: current = null holds exactly until the first requestPlay has settled
\* (resolved or rejected), and once current is set no step sets it back to null.
C28_CurrentNullUntilFirstSettles ==
  [][ /\ state.current # Null => state'.current # Null
      /\ state'.current = Null
           <=> ~\E c \in DOMAIN calls' : calls'[c].pc \in {"done", "rejected"} ]_vars

\* C29: from the provider's initial state the queue never has more than one
\* entry and index is -1 or 0: a requestPlayAudio / requestPlayYouTube that
\* settles with its setState leaves the singleton of its item at index 0, and
\* next() and prev() change nothing and start no request.
C29_QueueIsSingleton ==
  [][ /\ Len(state.queue) <= 1 /\ state.index \in {-1, 0}
      /\ Len(state'.queue) <= 1 /\ state'.index \in {-1, 0}
      /\ \A c \in DOMAIN calls :
           (calls[c].res = "pending" /\ calls'[c].res \in {"ok", "failed"})
             => /\ state'.queue = <<calls[c].item>>
                /\ state'.index = 0
      /\ (next \/ prev) => /\ UNCHANGED progVars
                           /\ Len(calls') = Len(calls) ]_vars

\* next() was called after two requests for different items had settled
C29_Witness ==
  /\ lastOp.op = "next"
  /\ Len(calls) = 2 /\ calls[1].pc = "done" /\ calls[2].pc = "done"
  /\ calls[1].item # calls[2].item
  /\ state.queue = <<calls[2].item>> /\ state.index = 0

\* C30: once a YouTubeAudioPlayer widget has unmounted, the callback it
\* passed to subscribe() is not in the listener set of its video id, also
\* when it unmounted before its ensureYouTubePlayer call resolved.
C30_UnmountedNotSubscribed ==
  \A w \in DOMAIN widgets :
    ~widgets[w].mounted =>
      \A i \in listeners[widgets[w].vid] : i # widgets[w].unsubscribe

====
